---- MODULE Spec2Model ----
(***************************************************************************)
(* Lockstep tick relay of src/ffi.js.  The file holds two versions of the   *)
(* same plugin one after the other: lines 1-109 (variant 1: lazy ids from   *)
(* next_guest_id, ids by index at round start, receive_tick fan-out) and    *)
(* lines 110-229 (variant 2: ids from client_id_to_gameptr_map.length,      *)
(* duplicate-submission guard, receive_tick call commented out).  The       *)
(* variable `variant` says which one is loaded; it never changes.           *)
(*                                                                         *)
(* JavaScript runs one task at a time.  A task is a host call of           *)
(* start_round, one firing of a setInterval callback, a clearInterval, or   *)
(* a stretch of guest (wasm) code.  start_round and the interval callback   *)
(* call into guest code (start_game, allocate_vec_u8, receive_tick); while  *)
(* such a call is in progress the called guest, and only it, may write its  *)
(* own memory and call its imports send_tick_data / send_game.  `pc` holds  *)
(* the host task that is suspended in a guest call.                         *)
(***************************************************************************)
EXTENDS Integers, Sequences, FiniteSets, TLC

\* ---------------------------------------------------------------- bounds
NumGuests == 2     \* wasm instances register_ffi was called for
MaxTicks  == 2     \* slots the model lets tick_data grow to
MaxRounds == 2     \* start_round calls in one behaviour
MaxGames  == 2     \* send_game calls in one behaviour (variant 2)
MaxReceive == 2    \* receive_tick calls counted per guest and tick

\* --------------------------------------------------------- program values
undefined == -1    \* guest.id before any assignment (JS undefined)
IntentWidth == 3   \* bytes copied per participant in the fan-out

Guests == 1..NumGuests

\* contents a guest writes into the 3-byte region its data_ptr points at
Payloads == { <<1, 0, 0>>, <<0, 1, 0>> }

\* injective, non-empty sequences of registered guests: arguments of start_round
RECURSIVE SeqsOfLen(_)
SeqsOfLen(n) ==
    IF n = 0 THEN { <<>> }
    ELSE { Append(s, g) : s \in SeqsOfLen(n - 1), g \in Guests }

GuestLists ==
    { s \in UNION { SeqsOfLen(n) : n \in 1..NumGuests } :
        \A a, b \in 1..Len(s) : a # b => s[a] # s[b] }

VARIABLES
    variant,                  \* 1: lines 1-109, 2: lines 110-229
    tick_data,                \* sequence of slots; slot: key -> view
    current_tick_index,
    next_guest_id,            \* variant 1
    client_id_to_gameptr_map, \* variant 2
    id,                       \* guest.id, per guest object
    wasm_memory,              \* per guest: the bytes at data_ptr
    intervals,                \* setInterval handles: [guests, active]
    pc,                       \* host task suspended in a guest call
    receive_count             \* history: receive_tick calls per guest and tick
                              \*          since the last start_round

vars == << variant, tick_data, current_tick_index, next_guest_id,
           client_id_to_gameptr_map, id, wasm_memory, intervals, pc,
           receive_count >>

Idle == [ op |-> "idle", guests |-> <<>>, i |-> 0, tick |-> 0, arg |-> 0,
          players |-> <<>>, intents |-> <<>> ]

GuestCalls == { "start_game", "allocate_vec_u8", "receive_tick" }

\* start_round calls so far (the one in progress included)
rounds == Len(intervals) + (IF pc.op = "start_game" THEN 1 ELSE 0)

NoReceive == [ g \in Guests |-> [ t \in 0..(MaxTicks - 1) |-> 0 ] ]

\* the module-level state of lines 1-3 / 110-113, no guest has an id yet
Loaded ==
    /\ variant \in {1, 2}
    /\ tick_data = <<>>
    /\ current_tick_index = 0
    /\ next_guest_id = 0
    /\ client_id_to_gameptr_map = <<>>
    /\ id = [ g \in Guests |-> undefined ]
    /\ intervals = <<>>
    /\ pc = Idle
    /\ receive_count = NoReceive

\* guest 1 holds [1,0,0], every other guest [0,1,0]
Init ==
    /\ Loaded
    /\ wasm_memory = [ g \in Guests |-> IF g = 1 THEN <<1, 0, 0>> ELSE <<0, 1, 0>> ]

\* any contents
InitWrite ==
    /\ Loaded
    /\ wasm_memory \in [ Guests -> Payloads ]

\* guest g's code is running: its own task, or a host call into it
CanRun(g) ==
    \/ pc.op = "idle"
    \/ pc.op \in GuestCalls /\ pc.guests[pc.i + 1] = g

\* ------------------------------------------------------------ guest code

\* the guest stores other bytes in the region it passes as data_ptr
GuestWrite(g, bytes) ==
    /\ CanRun(g)
    /\ wasm_memory[g] # bytes
    /\ wasm_memory' = [ wasm_memory EXCEPT ![g] = bytes ]
    /\ UNCHANGED << variant, tick_data, current_tick_index, next_guest_id,
                    client_id_to_gameptr_map, id, intervals, pc,
                    receive_count >>

\* send_game (variant 2)
send_game(g) ==
    /\ variant = 2
    /\ CanRun(g)
    /\ Len(client_id_to_gameptr_map) < MaxGames
    /\ id' = [ id EXCEPT ![g] = Len(client_id_to_gameptr_map) ]
    /\ client_id_to_gameptr_map' = Append(client_id_to_gameptr_map, g)
    /\ UNCHANGED << variant, tick_data, current_tick_index, next_guest_id,
                    wasm_memory, intervals, pc, receive_count >>

\* lazy id of variant 1: the guest's id after lines 12-15
LazyId(g) ==
    IF variant = 1 /\ id[g] = undefined THEN next_guest_id ELSE id[g]

\* "sending ticks from the future"
IsFromTheFuture(tick_index) == tick_index > Len(tick_data)

\* the Uint8Array over the guest's memory, with what the region held when
\* the view was made (sent) and the round it was made in: history fields
View(g, data_len) ==
    [ guest |-> g, len |-> data_len,
      sent |-> SubSeq(wasm_memory[g], 1, data_len), round |-> rounds ]

\* variant 2 only: "we don't want players changing their historical record"
AlreadyRecorded(slot, key) == variant = 2 /\ key \in DOMAIN slot

\* a relay that makes a new slot on every submission, wherever it is stored
RecordedAppending(g, tick_index, data_len) ==
    LET key == LazyId(g)
        grown == Append(tick_data, << >>)
        slot == grown[tick_index + 1]
    IN  IF AlreadyRecorded(slot, key)
        THEN grown
        ELSE [ grown EXCEPT ![tick_index + 1] =
                 (key :> View(g, data_len)) @@ slot ]

\* tick_data after lines 24-36 / 136-153 for an index that is not from the future
Recorded(g, tick_index, data_len) ==
    LET key == LazyId(g)
        grown == IF tick_index = Len(tick_data)
                 THEN Append(tick_data, << >>)
                 ELSE tick_data
        slot == grown[tick_index + 1]
    IN  IF AlreadyRecorded(slot, key)
        THEN grown
        ELSE [ grown EXCEPT ![tick_index + 1] =
                 (key :> View(g, data_len)) @@ slot ]

\* a relay that buffers ahead: it makes the slots up to tick_index
SubmittedAhead(g, tick_index, data_len) ==
    IF tick_index > Len(tick_data)
    THEN [ tick_data \o [ k \in 1..(tick_index + 1 - Len(tick_data)) |-> << >> ]
             EXCEPT ![tick_index + 1] = LazyId(g) :> View(g, data_len) ]
    ELSE Recorded(g, tick_index, data_len)

\* tick_data after send_tick_data: lines 19-36 / 131-153
Submitted(g, tick_index, data_len) ==
    IF IsFromTheFuture(tick_index)
    THEN tick_data
    ELSE Recorded(g, tick_index, data_len)

send_tick_data(g, tick_index, data_len) ==
    /\ CanRun(g)
    /\ tick_index = Len(tick_data) => Len(tick_data) < MaxTicks
    /\ id' = [ id EXCEPT ![g] = LazyId(g) ]
    /\ next_guest_id' = IF variant = 1 /\ id[g] = undefined
                        THEN next_guest_id + 1 ELSE next_guest_id
    /\ tick_data' = Submitted(g, tick_index, data_len)
    /\ UNCHANGED << variant, current_tick_index, client_id_to_gameptr_map,
                    wasm_memory, intervals, pc, receive_count >>

\* ------------------------------------------------------------- host code

\* guests[i].id at round start: line 45 (the index) / line 162 (the map length)
RoundId(i) == IF variant = 1 THEN i ELSE Len(client_id_to_gameptr_map)

\* what start_game is called with: lines 47 / 163
StartGameArg(i) == i + 1

\* a start_round that keeps the buffer of the round before
FreshTickDataKept == tick_data

\* the buffer and the cursor of a new round: lines 41-42 / 158-159
FreshTickData == << >>

FreshTickIndex == 0

\* start_round up to its first call into a guest: start_game on guests[0]
start_round(guests) ==
    /\ pc.op = "idle"
    /\ rounds < MaxRounds
    /\ tick_data' = FreshTickData
    /\ current_tick_index' = FreshTickIndex
    /\ id' = [ id EXCEPT ![guests[1]] = RoundId(0) ]
    /\ pc' = [ Idle EXCEPT !.op = "start_game", !.guests = guests, !.i = 0,
                           !.arg = StartGameArg(0) ]
    /\ receive_count' = NoReceive
    /\ UNCHANGED << variant, next_guest_id, client_id_to_gameptr_map,
                    wasm_memory, intervals >>

\* start_game returns: the next guest's turn, or setInterval and return
start_game_return ==
    /\ pc.op = "start_game"
    /\ IF pc.i + 1 < Len(pc.guests)
       THEN /\ id' = [ id EXCEPT ![pc.guests[pc.i + 2]] = RoundId(pc.i + 1) ]
            /\ pc' = [ pc EXCEPT !.i = pc.i + 1,
                                 !.arg = StartGameArg(pc.i + 1) ]
            /\ UNCHANGED intervals
       ELSE /\ intervals' = Append(intervals,
                                   [ guests |-> pc.guests, active |-> TRUE ])
            /\ pc' = Idle
            /\ UNCHANGED id
    /\ UNCHANGED << variant, tick_data, current_tick_index, next_guest_id,
                    client_id_to_gameptr_map, wasm_memory, receive_count >>

\* stop_round: clearInterval on the handle start_round returned
stop_round(h) ==
    /\ pc.op = "idle"
    /\ h \in 1..Len(intervals)
    /\ intervals[h].active
    /\ intervals' = [ intervals EXCEPT ![h].active = FALSE ]
    /\ UNCHANGED << variant, tick_data, current_tick_index, next_guest_id,
                    client_id_to_gameptr_map, id, wasm_memory, pc,
                    receive_count >>

\* ------------------------------------------------------------ server_loop

\* lines 54 / 170: the completeness test
AllPlayerDataArrived(tick, guests) == Cardinality(DOMAIN tick) >= Len(guests)

\* a cursor that skips a tick
NextTickIndexSkipping(c) == c + 2

\* the cursor after a fan-out: lines 100 / 220
NextTickIndex(c) == c + 1

\* tick[id][k] ?? 0, read through the view at the time of the fan-out
ByteAt(view, k) ==
    IF k < view.len THEN wasm_memory[view.guest][k + 1] ELSE 0

\* the indices j # i in loop order: lines 79-82 / 196-199
Others(guests, i) ==
    SelectSeq([ k \in 1..Len(guests) |-> k - 1 ], LAMBDA j : j # i)

\* tick[id] is undefined for some j # i: tick[id][0] throws a TypeError
Throws(tick, guests, i) ==
    \E j \in 0..(Len(guests) - 1) : j # i /\ id[guests[j + 1]] \notin DOMAIN tick

\* wasm_players after the inner loop: lines 85 / 202
WasmPlayers(guests, i) == Others(guests, i)

RECURSIVE Concat(_)
Concat(ss) == IF ss = << >> THEN << >> ELSE Head(ss) \o Concat(Tail(ss))

\* wasm_intents after the inner loop: lines 86-88 / 203-205
WasmIntents(tick, guests, i) ==
    LET js == Others(guests, i)
    IN  Concat([ k \in 1..Len(js) |->
                   [ b \in 1..IntentWidth |->
                       ByteAt(tick[id[guests[js[k] + 1]]], b - 1) ] ])

\* one firing of the interval callback up to its first call into a guest
\* (allocate_vec_u8 on guests[0]); a firing that returns early changes nothing
server_loop(h) ==
    /\ pc.op = "idle"
    /\ h \in 1..Len(intervals)
    /\ intervals[h].active
    /\ current_tick_index < Len(tick_data)
    /\ AllPlayerDataArrived(tick_data[current_tick_index + 1], intervals[h].guests)
    /\ current_tick_index < MaxTicks
    /\ \A g \in Guests : receive_count[g][current_tick_index] < MaxReceive
    /\ pc' = [ Idle EXCEPT !.op = "allocate_vec_u8",
                           !.guests = intervals[h].guests,
                           !.i = 0, !.tick = current_tick_index ]
    /\ UNCHANGED << variant, tick_data, current_tick_index, next_guest_id,
                    client_id_to_gameptr_map, id, wasm_memory, intervals,
                    receive_count >>

\* both allocate_vec_u8 calls have returned: fill the two buffers, then
\* receive_tick (variant 1) or console.log (variant 2); a TypeError ends the task
allocate_return ==
    /\ pc.op = "allocate_vec_u8"
    /\ LET tick == tick_data[pc.tick + 1]
           g == pc.guests[pc.i + 1]
       IN  IF Throws(tick, pc.guests, pc.i)
           THEN /\ pc' = Idle
                /\ UNCHANGED receive_count
           ELSE /\ pc' = [ pc EXCEPT
                             !.op = IF variant = 1 THEN "receive_tick"
                                                   ELSE "console_log",
                             !.players = WasmPlayers(pc.guests, pc.i),
                             !.intents = WasmIntents(tick, pc.guests, pc.i) ]
                /\ receive_count' =
                     IF variant = 1
                     THEN [ receive_count EXCEPT ![g][pc.tick] = @ + 1 ]
                     ELSE receive_count
    /\ UNCHANGED << variant, tick_data, current_tick_index, next_guest_id,
                    client_id_to_gameptr_map, id, wasm_memory, intervals >>

\* receive_tick / console.log has returned: next guest, or advance the cursor
fan_out_next ==
    /\ pc.op \in { "receive_tick", "console_log" }
    /\ IF pc.i + 1 < Len(pc.guests)
       THEN /\ pc' = [ pc EXCEPT !.op = "allocate_vec_u8", !.i = pc.i + 1,
                                 !.players = << >>, !.intents = << >> ]
            /\ UNCHANGED current_tick_index
       ELSE /\ pc' = Idle
            /\ current_tick_index' = NextTickIndex(current_tick_index)
    /\ UNCHANGED << variant, tick_data, next_guest_id,
                    client_id_to_gameptr_map, id, wasm_memory, intervals,
                    receive_count >>

\* -------------------------------------------------------- specification

\* guests that leave their intent bytes as loaded; the host starts rounds
\* with any list of guests and may or may not clear the interval of a round
Next ==
    \/ \E g \in Guests : send_game(g)
    \/ \E g \in Guests, tick_index \in 0..(MaxTicks + 1) :
         send_tick_data(g, tick_index, IntentWidth)
    \/ \E guests \in GuestLists : start_round(guests)
    \/ start_game_return
    \/ \E h \in 1..MaxRounds : stop_round(h)
    \/ \E h \in 1..MaxRounds : server_loop(h)
    \/ allocate_return
    \/ fan_out_next

Spec == Init /\ [][Next]_vars

\* the host's first start_round call
start_first_round(guests) == rounds = 0 /\ start_round(guests)

\* one round, in which guests also rewrite the region their views point at
NextWrite ==
    \/ \E g \in Guests, bytes \in Payloads : GuestWrite(g, bytes)
    \/ \E g \in Guests : send_game(g)
    \/ \E g \in Guests, tick_index \in 0..(MaxTicks + 1) :
         send_tick_data(g, tick_index, IntentWidth)
    \/ \E guests \in GuestLists : start_first_round(guests)
    \/ start_game_return
    \/ \E h \in 1..MaxRounds : server_loop(h)
    \/ allocate_return
    \/ fan_out_next

SpecWrite == InitWrite /\ [][NextWrite]_vars

\* the data_len values guests pass: a one-byte intent and the full record
DataLens == { 1, IntentWidth }

\* one round, in which guests pass either length
NextLen ==
    \/ \E g \in Guests : send_game(g)
    \/ \E g \in Guests, tick_index \in 0..(MaxTicks + 1), data_len \in DataLens :
         send_tick_data(g, tick_index, data_len)
    \/ \E guests \in GuestLists : start_first_round(guests)
    \/ start_game_return
    \/ \E h \in 1..MaxRounds : server_loop(h)
    \/ allocate_return
    \/ fan_out_next

SpecLen == Init /\ [][NextLen]_vars

\* the interval of the latest start_round is set and has not been cleared
Running ==
    /\ pc.op # "start_game"
    /\ intervals # << >>
    /\ intervals[Len(intervals)].active

\* one round that the host may stop
NextRound ==
    \/ \E g \in Guests : send_game(g)
    \/ \E g \in Guests, tick_index \in 0..(MaxTicks + 1) :
         send_tick_data(g, tick_index, IntentWidth)
    \/ \E guests \in GuestLists : start_first_round(guests)
    \/ start_game_return
    \/ \E h \in 1..MaxRounds : stop_round(h)
    \/ \E h \in 1..MaxRounds : server_loop(h)
    \/ allocate_return
    \/ fan_out_next

\* setInterval fires the callback every 20 ms until it is cleared, every call
\* into a guest returns, and each participant of a running round keeps
\* submitting its intent for the tick the cursor stands at
Fairness ==
    /\ WF_vars(\E h \in 1..MaxRounds : server_loop(h))
    /\ WF_vars(start_game_return)
    /\ WF_vars(allocate_return)
    /\ WF_vars(fan_out_next)
    /\ \A g \in Guests :
         SF_vars(/\ Running
                 /\ \E k \in 1..Len(intervals[Len(intervals)].guests) :
                      intervals[Len(intervals)].guests[k] = g
                 /\ send_tick_data(g, current_tick_index, IntentWidth))

SpecFair == Init /\ [][NextRound]_vars /\ Fairness

\* ------------------------------------------------------- claim vocabulary

Range(s) == { s[k] : k \in 1..Len(s) }

\* the list the latest start_round was called with
CurrentGuests ==
    IF pc.op = "start_game" THEN pc.guests
    ELSE IF intervals = << >> THEN << >>
    ELSE intervals[Len(intervals)].guests

\* the participants of the current round
Registered == Range(CurrentGuests)

\* pc values of a fan-out in progress, and of one whose payload has been built
FanOut == { "allocate_vec_u8", "receive_tick", "console_log" }

Built == { "receive_tick", "console_log" }

\* slot t holds a view that guest g submitted
HasSubmitted(g, t) ==
    /\ t < Len(tick_data)
    /\ \E k \in DOMAIN tick_data[t + 1] : tick_data[t + 1][k].guest = g

\* this step calls receive_tick on Receiver with pc'.players and pc'.intents
Delivers == pc.op = "allocate_vec_u8" /\ pc'.op = "receive_tick"

Receiver == pc.guests[pc.i + 1]

\* ------------------------------------------------------------------ C1
\* C1: a tick is dispatched only when its slot holds an intent from each
\* registered participant: while a fan-out for tick t is in progress (and so
\* whenever a delivery happens or the cursor is about to advance past t),
\* every participant of the current round has a submission in slot t.
C1_DispatchOnlyWhenAllSubmitted ==
    pc.op \in FanOut => \A g \in Registered : HasSubmitted(g, pc.tick)

\* ------------------------------------------------------------------ C2
\* C2: the payload delivered to participant p never contains p's own id in
\* other_ids nor a view p itself submitted in other_intents.
C2_NeverOwnIdNorIntent ==
    [][Delivers =>
         /\ id[Receiver] \notin Range(pc'.players)
         /\ \A j \in Range(pc'.players) :
              tick_data[pc.tick + 1][id[pc.guests[j + 1]]].guest # Receiver
      ]_vars

\* ------------------------------------------------------------------ C3
\* C3: first writer wins: within a round an entry that a slot holds is never
\* replaced (a second submission for the same tick and participant changes
\* nothing), and the bytes later put into a payload for that entry are the
\* bytes of that first submission.
C3_FirstWriterWins ==
    [][/\ rounds' = rounds =>
            \A t \in 1..Len(tick_data) : \A k \in DOMAIN tick_data[t] :
               tick_data'[t][k] = tick_data[t][k]
       /\ (pc.op = "allocate_vec_u8" /\ pc'.op \in Built) =>
            pc'.intents =
              Concat([ n \in 1..Len(pc'.players) |->
                 tick_data[pc.tick + 1][id[pc.guests[pc'.players[n] + 1]]].sent ])
      ]_vars

\* ------------------------------------------------------------------ C4
\* C4: within a round the cursor never decreases and never skips: every
\* change of current_tick_index between two start_round calls is +1, it is
\* made at the end of a fan-out, and that fan-out was for the tick the cursor
\* stood at.
C4_CursorStepsByOne ==
    [][rounds' = rounds =>
         \/ current_tick_index' = current_tick_index
         \/ /\ current_tick_index' = current_tick_index + 1
            /\ pc.op \in Built
            /\ pc.tick = current_tick_index
      ]_vars

\* the cursor has advanced twice in one round
C4_Witness == current_tick_index = 2

\* ------------------------------------------------------------------ C5
\* this step builds the payload for Receiver (and, in variant 1, delivers it)
Builds == pc.op = "allocate_vec_u8" /\ pc'.op \in Built

\* the guests other than guests[i], in list order
OtherGuests(guests, i) ==
    LET js == Others(guests, i) IN [ n \in 1..Len(js) |-> guests[js[n] + 1] ]

\* C5: the payload built for participant p at a completed tick has other_ids
\* equal to the ids of all other participants in registry order, and its k-th
\* 3-byte record is the intent the k-th of them submitted for that tick, byte
\* for byte as submitted.
C5_PayloadIsOthersIntents ==
    [][Builds =>
         LET others == OtherGuests(pc.guests, pc.i)
             tick == tick_data[pc.tick + 1]
         IN  /\ pc'.players = [ n \in 1..Len(others) |-> id[others[n]] ]
             /\ \A n \in 1..Len(others) : tick[id[others[n]]].guest = others[n]
             /\ pc'.intents =
                  Concat([ n \in 1..Len(others) |-> tick[id[others[n]]].sent ])
      ]_vars

\* ------------------------------------------------------------------ C6
\* C6: a submission whose tick index is greater than the buffer length is
\* dropped: the buffer keeps its length and every slot its contents, no slot
\* is created.
C6_FutureTickDropped ==
    [][\A g \in Guests, tick_index \in 0..(MaxTicks + 1) :
         (tick_index > Len(tick_data) /\ send_tick_data(g, tick_index, IntentWidth))
            => tick_data' = tick_data
      ]_vars

\* before any round a variant-1 guest got its lazy id from a submission, and
\* the buffer is still empty: that submission was for a tick from the future
C6_Witness == rounds = 0 /\ tick_data = << >> /\ next_guest_id > 0

\* ------------------------------------------------------------------ C7
\* C7: receive_tick is called on each participant exactly once per completed
\* tick: between two scheduler tasks every participant of the round has one
\* delivery for each tick index below the cursor.
C7_ExactlyOncePerTick ==
    pc.op = "idle" =>
       \A g \in Registered : \A t \in 0..(current_tick_index - 1) :
          receive_count[g][t] = 1

\* ------------------------------------------------------------------ C8
\* C8: start_game is called on a participant with the id the registry gave
\* that participant.
C8_BeginWithRegistryId ==
    [][(pc'.op = "start_game" /\ (pc.op # "start_game" \/ pc'.i # pc.i))
          => pc'.arg = id'[pc'.guests[pc'.i + 1]]
      ]_vars

\* ------------------------------------------------------------------ C9
\* the participants start_round has given an id so far
Assigned ==
    IF pc.op = "start_game"
    THEN { pc.guests[k] : k \in 1..(pc.i + 1) }
    ELSE Registered

\* C9: ids are unique within a round, assigned from 0 upwards in list order,
\* and do not change during the round.
C9_UniqueStableIds ==
    [][/\ \A g, h \in Assigned' : g # h => id'[g] # id'[h]
       /\ \A k \in 1..Len(CurrentGuests') :
            CurrentGuests'[k] \in Assigned' => id'[CurrentGuests'[k]] = k - 1
       /\ rounds' = rounds => \A g \in Assigned : id'[g] = id[g]
      ]_vars

\* ----------------------------------------------------------------- C10
\* C10: start_round leaves the buffer empty and the cursor at 0, and every
\* view the buffer holds was submitted after the latest start_round call (so
\* no payload of the new round is built from an earlier submission).
C10_RoundStartsFresh ==
    [][/\ rounds' # rounds => tick_data' = << >> /\ current_tick_index' = 0
       /\ \A t \in 1..Len(tick_data') : \A k \in DOMAIN tick_data'[t] :
            tick_data'[t][k].round = rounds'
      ]_vars

\* in a second round a payload with another participant's intent is built
C10_Witness ==
    /\ rounds = 2
    /\ pc.op \in Built
    /\ pc.players # << >>

\* ----------------------------------------------------------------- C11
\* C11: a submission whose length differs from the intent width (3 bytes) is
\* rejected and not recorded: no slot ever holds an entry of another length
\* (so such a submission never counts towards a slot's completeness).
C11_MalformedNotRecorded ==
    \A t \in 1..Len(tick_data) : \A k \in DOMAIN tick_data[t] :
       tick_data[t][k].len = IntentWidth

\* ----------------------------------------------------------------- C12
\* stop_round has been called for the current round
Stopped ==
    /\ pc.op # "start_game"
    /\ intervals # << >>
    /\ ~intervals[Len(intervals)].active

\* this step is an interval callback that finds the slot complete and begins
\* the fan-out
Dispatches == pc.op = "idle" /\ pc'.op = "allocate_vec_u8"

\* C12: after stop_round the scheduler loop is halted: until the next
\* start_round no fan-out begins and the cursor does not move, whatever
\* submissions arrive.
C12_StoppedLoopHalts ==
    [][(Stopped /\ rounds' = rounds) =>
          /\ ~Dispatches
          /\ current_tick_index' = current_tick_index
      ]_vars

\* ----------------------------------------------------------------- C13
\* C13: the buffer has no sparse holes: it grows by one slot at a time, at
\* the index equal to its length, and the slot is made by the first
\* submission addressed to that index, so every slot below the length exists
\* with at least one entry; making a slot leaves the slots below it as they
\* were, and within a round the buffer never shrinks.
C13_NoSparseHoles ==
    [][/\ \A t \in 1..Len(tick_data') : DOMAIN tick_data'[t] # {}
       /\ rounds' = rounds => Len(tick_data') >= Len(tick_data)
       /\ Len(tick_data') > Len(tick_data) =>
            /\ Len(tick_data') = Len(tick_data) + 1
            /\ Cardinality(DOMAIN tick_data'[Len(tick_data')]) = 1
            /\ \A t \in 1..Len(tick_data) : tick_data'[t] = tick_data[t]
            /\ \E g \in Guests : send_tick_data(g, Len(tick_data), IntentWidth)
      ]_vars

\* slot 1 was made while slot 0 existed
C13_Witness == Len(tick_data) = 2

\* ----------------------------------------------------------------- C14
\* C14: a recorded intent is immutable: the bytes every entry of every slot
\* holds are, at all times up to and including the dispatch, the bytes the
\* participant's memory held when the entry was recorded.
C14_RecordedIntentImmutable ==
    \A t \in 1..Len(tick_data) : \A k \in DOMAIN tick_data[t] :
       LET view == tick_data[t][k]
       IN  [ b \in 1..view.len |-> ByteAt(view, b - 1) ] = view.sent

\* ----------------------------------------------------------------- C15
\* slot t holds, under its id, an intent of every participant of the round
Complete(t) ==
    /\ t < Len(tick_data)
    /\ \A g \in Registered :
         /\ id[g] \in DOMAIN tick_data[t + 1]
         /\ tick_data[t + 1][id[g]].guest = g

\* C15: liveness of the barrier, with the interval firing fairly: once the
\* slot at the cursor holds an intent from every participant of a running
\* round the cursor moves on to the next tick (unless the round is stopped),
\* and while the participants keep submitting for the tick at the cursor
\* every tick index is dispatched in the end.
C15_BarrierLiveness ==
    /\ \A t \in 0..(MaxTicks - 1) :
         (/\ Running /\ current_tick_index = t /\ Complete(t)
          /\ \A g \in Guests : receive_count[g][t] < MaxReceive)
            ~> (current_tick_index = t + 1 \/ ~Running)
    /\ Running ~> (current_tick_index = MaxTicks \/ ~Running)

\* ----------------------------------------------------------------- C16
\* C16: a submission by participant p for tick t changes at most p's entry in
\* slot t (making slot t if need be): every entry another participant
\* submitted, in any slot, every slot other than t, and the cursor are as
\* before; so submissions of different participants do not depend on their
\* order: in every state, whoever has submitted before, p's submission for a
\* tick that is not from the future leaves p's entry in slot t.
C16_SubmissionFrame ==
    [][/\ \A g \in Registered, tick_index \in 0..(MaxTicks + 1) :
            send_tick_data(g, tick_index, IntentWidth) =>
               /\ current_tick_index' = current_tick_index
               /\ \A s \in 1..Len(tick_data) :
                    /\ s # tick_index + 1 => tick_data'[s] = tick_data[s]
                    /\ \A k \in DOMAIN tick_data[s] :
                         (/\ tick_data[s][k].guest # g
                          /\ tick_data[s][k].guest \in Registered) =>
                            /\ k \in DOMAIN tick_data'[s]
                            /\ tick_data'[s][k] = tick_data[s][k]
       /\ \A g \in Registered, tick_index \in 0..Len(tick_data) :
            LET slot == Submitted(g, tick_index, IntentWidth)[tick_index + 1]
            IN  \E k \in DOMAIN slot : slot[k].guest = g
      ]_vars

\* ----------------------------------------------------------------- C17
\* C17: one scheduler loop drives the ticks: once start_round has been called
\* again no loop of an earlier round dispatches, so every fan-out in progress
\* goes over the participant list of the latest start_round call.
C17_OnlyCurrentLoopDispatches ==
    pc.op \in FanOut => pc.guests = CurrentGuests

\* ----------------------------------------------------------------- C18
\* the entries of slot t are one from each participant of the round, no other
SlotOfParticipants(t) ==
    /\ \A g \in Registered : HasSubmitted(g, t)
    /\ \A k \in DOMAIN tick_data[t + 1] : tick_data[t + 1][k].guest \in Registered

\* C18: submissions and the completeness test plus fan-out for a slot exclude
\* each other: from the completeness test to the end of the fan-out for a
\* tick t whose slot holds the participants' intents (pc stays inside the
\* same callback) slot t is not modified, so every participant's payload is
\* built from the slot the test saw.
C18_SlotFrozenDuringFanOut ==
    [][(pc.op \in FanOut /\ pc'.op \in FanOut /\ SlotOfParticipants(pc.tick)) =>
          tick_data'[pc.tick + 1] = tick_data[pc.tick + 1]
      ]_vars

\* ----------------------------------------------------------------- C19
\* C19: in every state of a round every key of every slot is the id of a
\* participant of the round, whose entry it holds; so no slot holds more
\* entries than there are participants, and no fan-out looks up an intent
\* that is missing from the slot.
C19_KeysAreParticipantIds ==
    rounds > 0 =>
       /\ \A t \in 1..Len(tick_data) :
            /\ \A k \in DOMAIN tick_data[t] :
                 \E g \in Assigned : id[g] = k /\ tick_data[t][k].guest = g
            /\ Cardinality(DOMAIN tick_data[t]) <= Cardinality(Registered)
       /\ pc.op = "allocate_vec_u8" =>
            ~Throws(tick_data[pc.tick + 1], pc.guests, pc.i)

\* ----------------------------------------------------------------- C20
\* C20: in every state the cursor is between 0 and the buffer length (the
\* scheduler never advances it past a slot that does not exist), and every
\* slot below the cursor holds an intent from every participant of the round.
C20_CursorWithinBuffer ==
    /\ current_tick_index \in 0..Len(tick_data)
    /\ \A t \in 0..(current_tick_index - 1) :
         \A g \in Registered : HasSubmitted(g, t)

====
